---- MODULE Spec2Model ----
\* Recipe assembly of backend/api/serializers.py over the entity model of
\* backend/recipes/models.py: validation, create / update / delete of a recipe
\* together with its tag links and IngredientInRecipe rows, the cascades of a
\* recipe's deletion, and the subscription summary.
EXTENDS Integers, Sequences, FiniteSets, Bags, TLC

VARIABLES db, nextId, resp, proc, seen

vars == <<db, nextId, resp, proc, seen>>

-----------------------------------------------------------------------------
\* Bounds of the model.

\* Largest recipe id the store's sequence hands out.
MaxRecipes == 2
\* Largest recipe id of the concurrent specification.
MaxTxRecipes == 1
\* Longest ingredients / tags list of a request.
MaxList == 2
\* Largest digit of a recipes_limit query parameter.
MaxDigit == 2

\* Upper bound of validate_amount (recipes/validators.py, a value of settings).
MAX_AMOUNT == 2

Users == {"u1", "u2"}
\* The users who follow: the authors and one who writes no recipe.
Followers == Users \cup {"u3"}
\* Rows of the Ingredients and Tags tables; id 3 is in neither table.
IngredientRows == {1, 2}
TagRows == {1, 2}
IngredientIds == {1, 2, 3}
TagIds == {1, 2, 3}
Amounts == 0 .. (MAX_AMOUNT + 1)
Names == {"n1", "n2"}

None == <<>>
Some(x) == <<x>>

Min(a, b) == IF a < b THEN a ELSE b

\* Sequences over S of length at most n.
SeqUpTo(S, n) == UNION {[1 .. k -> S] : k \in 0 .. n}

-----------------------------------------------------------------------------
\* The store: one record of tables.
\*   Recipes            id -> [author, name]          (models.py Recipes)
\*   recipe_tags        {<<recipe, tag>>}             (Recipes.tags, M2M)
\*   IngredientInRecipe bag of [recipe, ingredient, amount]
\*   Favorite, Cart     {<<user, recipe>>}
\*   Subscribe          {<<user, author>>}
\*   Ingredients, Tags  ids of the shared reference rows

EmptyStore ==
    [Recipes |-> <<>>,
     recipe_tags |-> {},
     IngredientInRecipe |-> EmptyBag,
     Favorite |-> {},
     Cart |-> {},
     Subscribe |-> {},
     Ingredients |-> IngredientRows,
     Tags |-> TagRows]

\* IngredientInRecipe(ingredient_id=..., recipe=..., amount=...)
IngredientInRecipe(recipe, ingredient_id, amount) ==
    [recipe |-> recipe, ingredient |-> ingredient_id, amount |-> amount]

\* recipe.ingredientinrecipe_set: the rows of one recipe, as a bag.
ingredientinrecipe_set(s, recipe) ==
    LET rows == {x \in BagToSet(s.IngredientInRecipe) : x.recipe = recipe}
    IN  [x \in rows |-> s.IngredientInRecipe[x]]

\* recipe.tags.all(): the tag ids linked to one recipe.
tags_all(s, recipe) == {l[2] : l \in {x \in s.recipe_tags : x[1] = recipe}}

\* What RecipesSerializer renders of a recipe: the fields `tags` and
\* `ingredients` (source ingredientinrecipe_set).
RecipeRead(s, recipe) ==
    [tags |-> tags_all(s, recipe),
     ingredients |-> ingredientinrecipe_set(s, recipe)]

\* validate_amount(v): accepts 1 .. MAX_AMOUNT.
validate_amount(v) == v >= 1 /\ v <= MAX_AMOUNT

-----------------------------------------------------------------------------
\* RecipesSerializer.validate

\* A Python value's truth for an optional list: None and [] are false.
truthy(opt) == opt # None /\ opt[1] # <<>>

\* validate's loop over ingredients, mutated: the duplicate test is missing.
RECURSIVE validate_ingredients_no_dup(_, _, _, _)
validate_ingredients_no_dup(s, items, i, ingredients_list) ==
    IF i > Len(items) THEN "ok"
    ELSE IF items[i].id \notin s.Ingredients THEN "NotFound"
    ELSE IF ~validate_amount(items[i].amount) THEN "ValidationError"
    ELSE validate_ingredients_no_dup(s, items, i + 1, ingredients_list)

\* The loop over ingredients: get_object_or_404, then the duplicate test, then
\* validate_amount, item by item; the first failure is the one raised.
RECURSIVE validate_ingredients(_, _, _, _)
validate_ingredients(s, items, i, ingredients_list) ==
    IF i > Len(items) THEN "ok"
    ELSE IF items[i].id \notin s.Ingredients THEN "NotFound"
    ELSE IF items[i].id \in ingredients_list THEN "ValidationError"
    ELSE IF ~validate_amount(items[i].amount) THEN "ValidationError"
    ELSE validate_ingredients(s, items, i + 1, ingredients_list \cup {items[i].id})

\* validate's loop over tags, mutated: a tag id is not looked up.
RECURSIVE validate_tags_no_lookup(_, _, _, _)
validate_tags_no_lookup(s, items, i, tags_list) ==
    IF i > Len(items) THEN "ok"
    ELSE IF items[i] \in tags_list THEN "ValidationError"
    ELSE validate_tags_no_lookup(s, items, i + 1, tags_list \cup {items[i]})

\* The loop over tags: get_object_or_404, then the duplicate test.
RECURSIVE validate_tags(_, _, _, _)
validate_tags(s, items, i, tags_list) ==
    IF i > Len(items) THEN "ok"
    ELSE IF items[i] \notin s.Tags THEN "NotFound"
    ELSE IF items[i] \in tags_list THEN "ValidationError"
    ELSE validate_tags(s, items, i + 1, tags_list \cup {items[i]})

\* The status validate ends with: "ok", "ValidationError" or "NotFound".
validate_status(s, initial_data) ==
    IF ~truthy(initial_data.ingredients) THEN "ValidationError"
    ELSE LET r1 == validate_ingredients(s, initial_data.ingredients[1], 1, {})
         IN  IF r1 # "ok" THEN r1
             ELSE IF ~truthy(initial_data.tags) THEN "ValidationError"
             ELSE validate_tags(s, initial_data.tags[1], 1, {})

\* The data validate returns: author is the requesting user, ingredients and
\* tags are the raw lists of initial_data.
validate(initial_data, user) ==
    [author |-> user,
     name |-> initial_data.name,
     ingredients |-> initial_data.ingredients[1],
     tags |-> initial_data.tags[1]]

-----------------------------------------------------------------------------
\* The store's constraints (models.py).

\* UniqueConstraint(fields=['ingredient', 'recipe']) of IngredientInRecipe,
\* mutated: the constraint is not declared.
no_unique_constraint(rows) == TRUE

\* UniqueConstraint(fields=['ingredient', 'recipe']) of IngredientInRecipe:
\* no two rows of the table share the pair.
unique_ingredient_in_recipe(rows) ==
    \A x \in BagToSet(rows) :
        /\ rows[x] = 1
        /\ \A y \in BagToSet(rows) :
               (x.recipe = y.recipe /\ x.ingredient = y.ingredient) => x = y

\* The ForeignKey columns `recipe`: every referencing row names a Recipes row.
foreign_keys(s) ==
    /\ \A x \in BagToSet(s.IngredientInRecipe) : x.recipe \in DOMAIN s.Recipes
    /\ \A l \in s.recipe_tags : l[1] \in DOMAIN s.Recipes
    /\ \A l \in s.Favorite \cup s.Cart : l[2] \in DOMAIN s.Recipes

\* UniqueConstraint(fields=['user', 'recipe']) of Favorite and Cart holds of a
\* set of pairs by construction; an insert of a present pair is refused.
Constraints(s) ==
    /\ unique_ingredient_in_recipe(s.IngredientInRecipe)
    /\ foreign_keys(s)

-----------------------------------------------------------------------------
\* The statements of create / update / delete, each a function of the store
\* it runs against, giving [ok, s]: ok is FALSE when the store raises
\* IntegrityError, and s is the store after the statement.

Ok(s) == [ok |-> TRUE, s |-> s]
Raise(s) == [ok |-> FALSE, s |-> s]

\* Recipes.objects.create(image=image, **validated_data): the row holds the
\* author and the scalar fields of validated_data.
Recipes_objects_create(s, id, validated_data) ==
    Ok([s EXCEPT !.Recipes =
            (id :> [author |-> validated_data.author,
                    name |-> validated_data.name]) @@ s.Recipes])

\* recipe.tags.set(tags): afterwards the recipe's links are the given ids.
tags_set(s, recipe, tags) ==
    Ok([s EXCEPT !.recipe_tags =
            {l \in s.recipe_tags : l[1] # recipe}
            \cup {<<recipe, tags[k]>> : k \in 1 .. Len(tags)}])

\* IngredientInRecipe.objects.bulk_create([row]): one INSERT, refused by the
\* unique constraint.
bulk_create(s, row) ==
    LET rows == s.IngredientInRecipe (+) SetToBag({row})
    IN  IF unique_ingredient_in_recipe(rows)
        THEN Ok([s EXCEPT !.IngredientInRecipe = rows])
        ELSE Raise(s)

\* create_ingredients, mutated: the loop skips the last item.
RECURSIVE create_ingredients_short(_, _, _, _)
create_ingredients_short(s, ingredients, recipe, i) ==
    IF i >= Len(ingredients) THEN Ok(s)
    ELSE LET r == bulk_create(s, IngredientInRecipe(
                      recipe, ingredients[i].id, ingredients[i].amount))
         IN  IF r.ok THEN create_ingredients_short(r.s, ingredients, recipe, i + 1)
             ELSE r

\* create_ingredients: one bulk_create per item, from item i on; the first
\* IntegrityError ends the loop.
RECURSIVE create_ingredients(_, _, _, _)
create_ingredients(s, ingredients, recipe, i) ==
    IF i > Len(ingredients) THEN Ok(s)
    ELSE LET r == bulk_create(s, IngredientInRecipe(
                      recipe, ingredients[i].id, ingredients[i].amount))
         IN  IF r.ok THEN create_ingredients(r.s, ingredients, recipe, i + 1)
             ELSE r

\* recipe.ingredients.clear(), mutated: nothing is removed.
ingredients_keep(s, recipe) == Ok(s)

\* recipe.ingredients.clear(): removes every IngredientInRecipe row of the recipe.
ingredients_clear(s, recipe) ==
    LET keep == {x \in BagToSet(s.IngredientInRecipe) : x.recipe # recipe}
    IN  Ok([s EXCEPT !.IngredientInRecipe =
                [x \in keep |-> s.IngredientInRecipe[x]]])

\* super().update(recipe, validated_data): every field left in validated_data
\* (author, put there by validate, and the scalar fields) is set on the
\* instance, and instance.save() writes the row (UPDATE, else INSERT).
super_update(s, recipe, validated_data) ==
    Ok([s EXCEPT !.Recipes =
            (recipe :> [author |-> validated_data.author,
                        name |-> validated_data.name]) @@ s.Recipes])

\* recipe.delete(), mutated: Favorite and Cart rows are left behind.
recipe_delete_no_cascade(s, recipe) ==
    [s EXCEPT
        !.Recipes = [x \in DOMAIN s.Recipes \ {recipe} |-> s.Recipes[x]],
        !.recipe_tags = {l \in s.recipe_tags : l[1] # recipe},
        !.IngredientInRecipe = ingredients_clear(s, recipe).s.IngredientInRecipe]

\* recipe.delete(): the row goes, and with it (on_delete=CASCADE and the M2M
\* table) its IngredientInRecipe, Favorite, Cart rows and its tag links.
recipe_delete(s, recipe) ==
    [s EXCEPT
        !.Recipes = [x \in DOMAIN s.Recipes \ {recipe} |-> s.Recipes[x]],
        !.recipe_tags = {l \in s.recipe_tags : l[1] # recipe},
        !.IngredientInRecipe = ingredients_clear(s, recipe).s.IngredientInRecipe,
        !.Favorite = {l \in s.Favorite : l[2] # recipe},
        !.Cart = {l \in s.Cart : l[2] # recipe}]

-----------------------------------------------------------------------------
\* @transaction.atomic on create and update.

\* Mutated: the decorators are missing, every statement commits on its own.
NOT_ATOMIC == FALSE

\* The decorators are present.
ATOMIC == TRUE

\* What a block that ran from store s to result r leaves behind.
transaction_atomic(s, r) ==
    IF r.ok \/ ~ATOMIC THEN r ELSE Raise(s)

\* RecipesSerializer.create, run alone against store s; id is the value the
\* store's sequence gives the new row. The closing recipe.save() writes the
\* row again from the same fields.
create(s, id, validated_data) ==
    LET r1 == Recipes_objects_create(s, id, validated_data)
        r2 == tags_set(r1.s, id, validated_data.tags)
        r3 == create_ingredients(r2.s, validated_data.ingredients, id, 1)
        r4 == IF r3.ok THEN super_update(r3.s, id, validated_data) ELSE r3
    IN  transaction_atomic(s, r4)

\* RecipesSerializer.update, run alone against store s.
update(s, recipe, validated_data) ==
    LET r1 == ingredients_clear(s, recipe)
        r2 == create_ingredients(r1.s, validated_data.ingredients, recipe, 1)
        r3 == IF r2.ok THEN tags_set(r2.s, recipe, validated_data.tags) ELSE r2
        r4 == IF r3.ok THEN super_update(r3.s, recipe, validated_data) ELSE r3
    IN  transaction_atomic(s, r4)

\* RecipesSerializer.delete
delete(s, recipe) == recipe_delete(s, recipe)

-----------------------------------------------------------------------------
\* Derived queries of SubscribeSerializer.

\* The parameters a query string can carry for recipes_limit: absent (None),
\* or a string of at most two digits, each at most MaxDigit.
Digits == 0 .. MaxDigit
QueryParams == {None} \cup {Some(str) : str \in SeqUpTo(Digits, 2)}

\* int(recipes_limit) of a digit string.
RECURSIVE int(_)
int(str) ==
    IF str = <<>> THEN 0
    ELSE 10 * int(SubSeq(str, 1, Len(str) - 1)) + str[Len(str)]

\* Meta.ordering = ('-id',) of Recipes: the ids, largest first.
RECURSIVE ordering(_)
ordering(ids) ==
    IF ids = {} THEN <<>>
    ELSE LET top == CHOOSE x \in ids : \A y \in ids : y <= x
         IN  <<top>> \o ordering(ids \ {top})

\* get_recipes, mutated: the limit is tested as a number, so "0" is no limit.
get_recipes_zero_unlimited(s, obj, recipes_limit) ==
    LET queryset == ordering({r \in DOMAIN s.Recipes :
                        <<obj[1], s.Recipes[r].author>> \in s.Subscribe})
    IN  IF truthy(recipes_limit) /\ int(recipes_limit[1]) # 0
        THEN SubSeq(queryset, 1, Min(int(recipes_limit[1]), Len(queryset)))
        ELSE queryset

\* get_recipes: Recipes.objects.filter(author__following__user=obj.user), in
\* the model's ordering, cut to [:int(recipes_limit)] when the parameter is a
\* non-empty string. obj is a Subscribe row <<user, author>>.
get_recipes(s, obj, recipes_limit) ==
    LET queryset == ordering({r \in DOMAIN s.Recipes :
                        <<obj[1], s.Recipes[r].author>> \in s.Subscribe})
    IN  IF truthy(recipes_limit)
        THEN SubSeq(queryset, 1, Min(int(recipes_limit[1]), Len(queryset)))
        ELSE queryset

\* get_recipes_count: obj.author.recipe_author.count()
get_recipes_count(s, obj) ==
    Cardinality({r \in DOMAIN s.Recipes : s.Recipes[r].author = obj[2]})

-----------------------------------------------------------------------------
\* Requests.

IngredientItems == [id : IngredientIds, amount : Amounts]

\* Every initial_data within the bounds: `ingredients` and `tags` absent
\* (None) or lists of at most MaxList items.
AllInitialData ==
    [name : {"n1"},
     ingredients : {None} \cup {Some(l) : l \in SeqUpTo(IngredientItems, MaxList)},
     tags : {None} \cup {Some(l) : l \in SeqUpTo(TagIds, MaxList)}]

Item(id, amount) == [id |-> id, amount |-> amount]

\* The requests of the assembly specification: every list of at most two of
\* three items over the rows that exist (so duplicates too), lists of at most
\* two tags that exist (empty, single, distinct, duplicate), and requests that
\* name a missing id or an amount out of range.
RichItems == {Item(1, 1), Item(1, 2), Item(2, 1)}
InitialData ==
    [name : {"n1"},
     ingredients : {Some(l) : l \in SeqUpTo(RichItems, 2)},
     tags : {Some(<<>>), Some(<<1>>), Some(<<2>>), Some(<<2, 1>>), Some(<<2, 2>>)}]
    \cup [name : {"n1"},
          ingredients : {None, Some(<<Item(3, 1)>>), Some(<<Item(1, 0)>>)},
          tags : {Some(<<1>>)}]
    \cup [name : {"n1"},
          ingredients : {Some(<<Item(1, 1)>>)},
          tags : {None, Some(<<3>>)}]

\* Two valid requests, one invalid: the requests of the specifications that
\* are about something else than the lists.
P1 == [name |-> "n1", ingredients |-> Some(<<Item(1, 1)>>), tags |-> Some(<<1>>)]
P2 == [name |-> "n2", ingredients |-> Some(<<Item(2, 2), Item(1, 1)>>),
       tags |-> Some(<<2, 1>>)]
P3 == [name |-> "n2", ingredients |-> Some(<<Item(1, 1)>>), tags |-> Some(<<>>)]
FewData == {P1, P2, P3}

\* What a handler answers with. A failed call answers with its status alone.
Response(op, status, recipe, data) ==
    [op |-> op, status |-> status, recipe |-> recipe, data |-> data]

NoData == <<>>

-----------------------------------------------------------------------------
\* The handlers, one request at a time: serializer.is_valid() (validate), then
\* serializer.save() (create / update).

Create(user, initial_data) ==
    /\ nextId <= MaxRecipes
    /\ LET status == validate_status(db, initial_data)
       IN  IF status # "ok"
           THEN /\ resp' = Response("create", status, 0, NoData)
                /\ UNCHANGED <<db, nextId>>
           ELSE LET data == validate(initial_data, user)
                    r == create(db, nextId, data)
                IN  /\ db' = r.s
                    /\ nextId' = nextId + 1
                    /\ resp' = IF r.ok
                               THEN Response("create", "ok", nextId, data)
                               ELSE Response("create", "IntegrityError", 0, NoData)
    /\ UNCHANGED <<proc, seen>>

Update(user, recipe, initial_data) ==
    /\ recipe \in DOMAIN db.Recipes
    /\ LET status == validate_status(db, initial_data)
       IN  IF status # "ok"
           THEN /\ resp' = Response("update", status, recipe, NoData)
                /\ UNCHANGED db
           ELSE LET data == validate(initial_data, user)
                    r == update(db, recipe, data)
                IN  /\ db' = r.s
                    /\ resp' = IF r.ok
                               THEN Response("update", "ok", recipe, data)
                               ELSE Response("update", "IntegrityError", recipe, NoData)
    /\ UNCHANGED <<nextId, proc, seen>>

Delete(recipe) ==
    /\ recipe \in DOMAIN db.Recipes
    /\ db' = delete(db, recipe)
    /\ resp' = Response("delete", "ok", recipe, NoData)
    /\ UNCHANGED <<nextId, proc, seen>>

\* A Favorite row (user, recipe) is inserted; the unique constraint refuses a
\* second row of the pair.
AddFavorite(user, recipe) ==
    /\ recipe \in DOMAIN db.Recipes
    /\ <<user, recipe>> \notin db.Favorite
    /\ db' = [db EXCEPT !.Favorite = @ \cup {<<user, recipe>>}]
    /\ resp' = Response("favorite", "ok", recipe, NoData)
    /\ UNCHANGED <<nextId, proc, seen>>

\* A Cart row (user, recipe) is inserted.
AddCart(user, recipe) ==
    /\ recipe \in DOMAIN db.Recipes
    /\ <<user, recipe>> \notin db.Cart
    /\ db' = [db EXCEPT !.Cart = @ \cup {<<user, recipe>>}]
    /\ resp' = Response("cart", "ok", recipe, NoData)
    /\ UNCHANGED <<nextId, proc, seen>>

\* A Subscribe row (user, author): user follows author.
AddSubscribe(user, author) ==
    /\ user # author
    /\ <<user, author>> \notin db.Subscribe
    /\ db' = [db EXCEPT !.Subscribe = @ \cup {<<user, author>>}]
    /\ resp' = Response("subscribe", "ok", 0, NoData)
    /\ UNCHANGED <<nextId, proc, seen>>

\* SubscribeSerializer renders one Subscribe row for a request whose query
\* string carries recipes_limit.
SubscriptionSummary(obj, recipes_limit) ==
    /\ obj \in db.Subscribe
    /\ resp' = [op |-> "summary", status |-> "ok", obj |-> obj,
                recipes_limit |-> recipes_limit,
                recipes |-> get_recipes(db, obj, recipes_limit),
                recipes_count |-> get_recipes_count(db, obj)]
    /\ UNCHANGED <<db, nextId, proc, seen>>

\* serializer.is_valid() on the request held in resp.
Validate ==
    /\ resp.op = "request"
    /\ resp' = [op |-> "validate", data |-> resp.data,
                status |-> validate_status(db, resp.data)]
    /\ UNCHANGED <<db, nextId, proc, seen>>

-----------------------------------------------------------------------------
Init ==
    /\ db = EmptyStore
    /\ nextId = 1
    /\ resp = [op |-> "none", status |-> "none"]
    /\ proc = <<>>
    /\ seen = None

\* The assembly of recipes: one author, the rich requests.
Next ==
    \/ \E d \in InitialData : Create("u1", d)
    \/ \E r \in 1 .. MaxRecipes, d \in InitialData : Update("u1", r, d)
    \/ \E r \in 1 .. MaxRecipes : Delete(r)

Spec == Init /\ [][Next]_vars

\* validate as a function of the request: Init draws the request.
InitValidate ==
    /\ db = EmptyStore
    /\ nextId = 1
    /\ resp \in [op : {"request"}, data : AllInitialData]
    /\ proc = <<>>
    /\ seen = None

NextValidate == Validate

SpecValidate == InitValidate /\ [][NextValidate]_vars

\* Recipes of two users with their Favorite and Cart rows.
NextCascade ==
    \/ \E u \in Users, d \in FewData : Create(u, d)
    \/ \E u \in Users, r \in 1 .. MaxRecipes, d \in FewData : Update(u, r, d)
    \/ \E r \in 1 .. MaxRecipes : Delete(r)
    \/ \E r \in 1 .. MaxRecipes : AddFavorite("u1", r)
    \/ \E r \in 1 .. MaxRecipes : AddCart("u2", r)

SpecCascade == Init /\ [][NextCascade]_vars

\* Recipes of two authors and who follows whom.
NextSubscribe ==
    \/ \E u \in Users : Create(u, P1)
    \/ \E r \in 1 .. MaxRecipes : Delete(r)
    \/ \E u \in Followers, a \in Users : AddSubscribe(u, a)
    \/ \E obj \in Followers \X Users, l \in QueryParams : SubscriptionSummary(obj, l)

SpecSubscribe == Init /\ [][NextSubscribe]_vars

-----------------------------------------------------------------------------
\* Concurrent requests. Each writer runs one call at a time, statement by
\* statement; a reader renders a recipe from the committed store. Inside
\* transaction.atomic a statement sees the committed store with the writer's
\* own uncommitted changes (the store's default isolation) and its changes
\* stay in the writer's log until the block is left; without it every
\* statement is committed as it runs.

Procs == {"w1", "w2"}

\* A writer's uncommitted changes: rows of Recipes written, tag links deleted
\* and inserted, IngredientInRecipe rows deleted and inserted.
EmptyLog ==
    [rins |-> <<>>, tdel |-> {}, tins |-> {}, idel |-> EmptyBag, iins |-> EmptyBag]

\* The store with a log applied.
Apply(s, log) ==
    [s EXCEPT
        !.Recipes = log.rins @@ s.Recipes,
        !.recipe_tags = (s.recipe_tags \ log.tdel) \cup log.tins,
        !.IngredientInRecipe = (s.IngredientInRecipe (-) log.idel) (+) log.iins]

\* The log after a statement that took the writer's view v to v2 and wrote
\* the Recipes rows `touched`.
Record(log, v, v2, touched) ==
    LET removedLinks == v.recipe_tags \ v2.recipe_tags
        addedLinks == v2.recipe_tags \ v.recipe_tags
        removedRows == v.IngredientInRecipe (-) v2.IngredientInRecipe
        addedRows == v2.IngredientInRecipe (-) v.IngredientInRecipe
    IN  [rins |-> [id \in touched |-> v2.Recipes[id]] @@ log.rins,
         tdel |-> log.tdel \cup (removedLinks \ log.tins),
         tins |-> (log.tins \ removedLinks) \cup addedLinks,
         idel |-> log.idel (+) (removedRows (-) log.iins),
         iins |-> (log.iins (-) removedRows) (+) addedRows]

\* A writer between calls: how its last call ended and whether that call
\* changed the committed store.
Idle(last, wrote) ==
    [pc |-> "idle", last |-> last, wrote |-> wrote]

Failures == {"ValidationError", "NotFound", "IntegrityError"}

View(p) == Apply(db, proc[p].log)

\* Row locks of the store: what the uncommitted logs of the writers P hold.
\* A row or link a writer has deleted, and a Recipes row it has written, is
\* locked until the writer commits or rolls back; a row or link it has
\* inserted makes an insert of the same key wait.
InFlight(P) == {o \in P : proc[o].pc # "idle"}
LockedRows(P) == UNION {BagToSet(proc[o].log.idel) : o \in InFlight(P)}
LockedLinks(P) == UNION {proc[o].log.tdel : o \in InFlight(P)}
LockedRecipes(P) == UNION {DOMAIN proc[o].log.rins : o \in InFlight(P)}
PendingRows(P) == UNION {BagToSet(proc[o].log.iins) : o \in InFlight(P)}
PendingLinks(P) == UNION {proc[o].log.tins : o \in InFlight(P)}

SamePair(x, y) == x.recipe = y.recipe /\ x.ingredient = y.ingredient

\* The statement after the one at pc.
NextPc(op, pc, i, n) ==
    CASE pc = "create_row" -> "tags"
      [] pc \in {"clear", "clear_wait"} -> "ingredients"
      [] pc = "ingredients" -> IF i < n THEN "ingredients"
                               ELSE IF op = "create" THEN "save" ELSE "tags"
      [] pc = "tags" -> IF op = "create" THEN "ingredients" ELSE "save"
      [] pc = "save" -> "commit"

\* Writer p runs one statement with result r, which wrote the Recipes rows
\* `touched` of recipe. IntegrityError ends the call; inside the atomic block
\* that drops the log.
Exec(p, r, recipe, touched) ==
    LET q == proc[p]
        n == Len(q.data.ingredients)
        pc2 == NextPc(q.op, q.pc, q.i, n)
        i2 == IF q.pc = "ingredients" THEN q.i + 1 ELSE q.i
    IN  IF ~r.ok
        THEN /\ proc' = [proc EXCEPT ![p] = Idle("IntegrityError", q.wrote)]
             /\ UNCHANGED db
        ELSE IF ATOMIC
        THEN /\ proc' = [proc EXCEPT ![p] =
                    [q EXCEPT !.pc = pc2, !.i = i2, !.recipe = recipe,
                              !.targets = EmptyBag,
                              !.log = Record(q.log, View(p), r.s, touched)]]
             /\ UNCHANGED db
        ELSE /\ proc' = [proc EXCEPT ![p] =
                    [q EXCEPT !.pc = pc2, !.i = i2, !.recipe = recipe,
                              !.targets = EmptyBag,
                              !.wrote = q.wrote \/ r.s # db]]
             /\ db' = r.s

\* serializer.is_valid() of a create or update request; a valid request
\* enters the handler.
TxValidate(p, user, op, recipe, initial_data) ==
    /\ proc[p].pc = "idle"
    /\ op = "update" => recipe \in DOMAIN db.Recipes
    /\ op = "create" =>
           /\ recipe = 0
           /\ nextId + Cardinality({o \in Procs : proc[o].pc = "create_row"})
                  <= MaxTxRecipes
    /\ LET status == validate_status(db, initial_data)
       IN  proc' = [proc EXCEPT ![p] =
               IF status # "ok" THEN Idle(status, FALSE)
               ELSE [pc |-> IF op = "create" THEN "create_row" ELSE "clear",
                     op |-> op, recipe |-> recipe,
                     data |-> validate(initial_data, user),
                     i |-> 1, log |-> EmptyLog, targets |-> EmptyBag,
                     wrote |-> FALSE]]
    /\ UNCHANGED <<db, nextId, resp, seen>>

\* create: Recipes.objects.create(...); the id comes from the store's sequence.
TxRecipesCreate(p) ==
    /\ proc[p].pc = "create_row"
    /\ Exec(p, Recipes_objects_create(View(p), nextId, proc[p].data), nextId, {nextId})
    /\ nextId' = nextId + 1
    /\ UNCHANGED <<resp, seen>>

\* update: recipe.ingredients.clear(). The DELETE finds the recipe's rows; if
\* another writer holds one of them it waits with the rows it found.
TxClear(p) ==
    /\ proc[p].pc = "clear"
    /\ LET found == ingredientinrecipe_set(View(p), proc[p].recipe)
       IN  IF ATOMIC /\ BagToSet(found) \cap LockedRows(Procs \ {p}) # {}
           THEN /\ proc' = [proc EXCEPT ![p].pc = "clear_wait",
                                        ![p].targets = found]
                /\ UNCHANGED db
           ELSE Exec(p, ingredients_clear(View(p), proc[p].recipe),
                     proc[p].recipe, {})
    /\ UNCHANGED <<nextId, resp, seen>>

\* The waiting DELETE goes on once the rows are free: it removes those of the
\* rows it found that are still there, and no row committed since.
TxClearResume(p) ==
    /\ proc[p].pc = "clear_wait"
    /\ BagToSet(proc[p].targets) \cap LockedRows(Procs \ {p}) = {}
    /\ LET v == View(p)
       IN  Exec(p, Ok([v EXCEPT !.IngredientInRecipe = @ (-) proc[p].targets]),
                proc[p].recipe, {})
    /\ UNCHANGED <<nextId, resp, seen>>

\* create_ingredients: the bulk_create of item i. The INSERT waits while
\* another writer holds a row of the same pair, inserted or deleted.
TxBulkCreate(p) ==
    /\ proc[p].pc = "ingredients"
    /\ LET item == proc[p].data.ingredients[proc[p].i]
           row == IngredientInRecipe(proc[p].recipe, item.id, item.amount)
       IN  /\ \A x \in PendingRows(Procs \ {p}) \cup LockedRows(Procs \ {p}) :
                  ~SamePair(x, row)
           /\ Exec(p, bulk_create(View(p), row), proc[p].recipe, {})
    /\ UNCHANGED <<nextId, resp, seen>>

\* recipe.tags.set(tags): the links to remove and to add are found from the
\* links the writer sees; the statement waits while another writer holds one.
TxTagsSet(p) ==
    /\ proc[p].pc = "tags"
    /\ LET r == tags_set(View(p), proc[p].recipe, proc[p].data.tags)
       IN  /\ (View(p).recipe_tags \ r.s.recipe_tags)
                  \cap LockedLinks(Procs \ {p}) = {}
           /\ (r.s.recipe_tags \ View(p).recipe_tags)
                  \cap PendingLinks(Procs \ {p}) = {}
           /\ Exec(p, r, proc[p].recipe, {})
    /\ UNCHANGED <<nextId, resp, seen>>

\* create: recipe.save(); update: super().update(recipe, validated_data).
\* Both write the Recipes row from the fields of validated_data.
TxSave(p) ==
    /\ proc[p].pc = "save"
    /\ proc[p].recipe \notin LockedRecipes(Procs \ {p})
    /\ Exec(p, super_update(View(p), proc[p].recipe, proc[p].data),
            proc[p].recipe, {proc[p].recipe})
    /\ UNCHANGED <<nextId, resp, seen>>

\* The atomic block is left: the log is committed if the store's constraints
\* hold of the result, and dropped with IntegrityError if they do not.
TxCommit(p) ==
    /\ proc[p].pc = "commit"
    /\ LET merged == Apply(db, proc[p].log)
       IN  IF Constraints(merged)
           THEN /\ db' = merged
                /\ proc' = [proc EXCEPT ![p] =
                       Idle("ok", proc[p].wrote \/ merged # db)]
           ELSE /\ UNCHANGED db
                /\ proc' = [proc EXCEPT ![p] =
                       Idle("IntegrityError", proc[p].wrote)]
    /\ UNCHANGED <<nextId, resp, seen>>

\* delete: recipe.delete(), one transaction of the store; it waits while a
\* writer holds the row, or a row or link of the recipe.
TxDelete(recipe) ==
    /\ recipe \in DOMAIN db.Recipes
    /\ recipe \notin LockedRecipes(Procs)
    /\ \A x \in LockedRows(Procs) : x.recipe # recipe
    /\ \A l \in LockedLinks(Procs) : l[1] # recipe
    /\ db' = delete(db, recipe)
    /\ UNCHANGED <<nextId, resp, proc, seen>>

\* A reader renders a recipe of the committed store.
Read(recipe) ==
    /\ recipe \in DOMAIN db.Recipes
    /\ seen' = Some(RecipeRead(db, recipe))
    /\ UNCHANGED <<db, nextId, resp, proc>>

\* The requests of the concurrent specification: T1 creates, T2 and T4 update
\* (to the same tag and different ingredients), T3 is invalid.
T1 == [name |-> "n1", ingredients |-> Some(<<Item(1, 1)>>), tags |-> Some(<<1>>)]
T2 == [name |-> "n1", ingredients |-> Some(<<Item(1, 2)>>), tags |-> Some(<<2>>)]
T3 == [name |-> "n1", ingredients |-> Some(<<Item(1, 1)>>), tags |-> None]
T4 == [name |-> "n1", ingredients |-> Some(<<Item(2, 1)>>), tags |-> Some(<<2>>)]

InitTx ==
    /\ db = EmptyStore
    /\ nextId = 1
    /\ resp = [op |-> "none", status |-> "none"]
    /\ proc = [p \in Procs |-> Idle("none", FALSE)]
    /\ seen = None

NextTx ==
    \/ \E p \in Procs, d \in {T1, T3} : TxValidate(p, "u1", "create", 0, d)
    \/ \E p \in Procs, r \in 1 .. MaxTxRecipes, d \in {T2, T3, T4} :
           TxValidate(p, "u1", "update", r, d)
    \/ \E p \in Procs : TxRecipesCreate(p)
    \/ \E p \in Procs : TxClear(p)
    \/ \E p \in Procs : TxClearResume(p)
    \/ \E p \in Procs : TxBulkCreate(p)
    \/ \E p \in Procs : TxTagsSet(p)
    \/ \E p \in Procs : TxSave(p)
    \/ \E p \in Procs : TxCommit(p)
    \/ \E r \in 1 .. MaxTxRecipes : TxDelete(r)
    \/ \E r \in 1 .. MaxTxRecipes : Read(r)

SpecTx == InitTx /\ [][NextTx]_vars

-----------------------------------------------------------------------------
\* Properties.

\* The ids a list of a request names, and whether one occurs twice.
Range(l) == {l[k] : k \in 1 .. Len(l)}
HasDuplicate(l) == \E j, k \in 1 .. Len(l) : j # k /\ l[j] = l[k]
ItemIds(l) == [k \in 1 .. Len(l) |-> l[k].id]
ListOf(opt) == IF opt = None THEN <<>> ELSE opt[1]

\* The rows a list of ingredient entries asks for, for one recipe.
RowsOf(recipe, l) ==
    {IngredientInRecipe(recipe, l[k].id, l[k].amount) : k \in 1 .. Len(l)}

\* The conditions C4 names: a list empty or missing, an id twice in a list.
C4_Case(d) ==
    \/ ListOf(d.ingredients) = <<>>
    \/ ListOf(d.tags) = <<>>
    \/ HasDuplicate(ItemIds(ListOf(d.ingredients)))
    \/ HasDuplicate(ListOf(d.tags))

\* The condition C5 names: an id of the request is in no table.
C5_Case(d) ==
    \/ \E x \in Range(ItemIds(ListOf(d.ingredients))) : x \notin db.Ingredients
    \/ \E x \in Range(ListOf(d.tags)) : x \notin db.Tags

AmountOutOfRange(d) ==
    \E k \in 1 .. Len(ListOf(d.ingredients)) :
        ~(ListOf(d.ingredients)[k].amount \in 1 .. MAX_AMOUNT)

\* C3: after a valid Create with N distinct existing ingredient ids and M
\* distinct existing tag ids, the recipe read back has exactly N
\* IngredientInRecipe rows, one per entry with its amount, and exactly the M
\* supplied tags.
C3_CreateStoresAll ==
    (resp.op = "create" /\ resp.status = "ok") =>
        LET read == RecipeRead(db, resp.recipe)
        IN  /\ resp.recipe \in DOMAIN db.Recipes
            /\ BagToSet(read.ingredients) = RowsOf(resp.recipe, resp.data.ingredients)
            /\ \A x \in BagToSet(read.ingredients) : read.ingredients[x] = 1
            /\ BagCardinality(read.ingredients) = Len(resp.data.ingredients)
            /\ read.tags = Range(resp.data.tags)
            /\ Cardinality(read.tags) = Len(resp.data.tags)

C3_Witness ==
    /\ resp.op = "create" /\ resp.status = "ok"
    /\ Len(resp.data.ingredients) = 2 /\ Len(resp.data.tags) = 2
    /\ BagCardinality(RecipeRead(db, resp.recipe).ingredients) = 2

\* C4 as stated: an empty or missing list or a duplicate id always ends in
\* ValidationError.
C4_Original ==
    (resp.op = "validate" /\ C4_Case(resp.data)) => resp.status = "ValidationError"

\* C4 amended: such a request always fails; with ValidationError when every id
\* it names exists, with ValidationError or NotFound otherwise.
C4_Amended ==
    (resp.op = "validate" /\ C4_Case(resp.data)) =>
        /\ resp.status \in {"ValidationError", "NotFound"}
        /\ ~C5_Case(resp.data) => resp.status = "ValidationError"

C4_Witness ==
    /\ resp.op = "validate" /\ resp.status = "ValidationError"
    /\ HasDuplicate(ItemIds(ListOf(resp.data.ingredients)))
    /\ ListOf(resp.data.tags) = <<1, 2>>
    /\ ~AmountOutOfRange(resp.data)

\* C5 as stated: an id that does not exist always ends in NotFound.
C5_Original ==
    (resp.op = "validate" /\ C5_Case(resp.data)) => resp.status = "NotFound"

\* C5 amended: such a request always fails; with NotFound when both lists are
\* non-empty, no id occurs twice and every amount is in range, with NotFound
\* or ValidationError otherwise.
C5_Amended ==
    (resp.op = "validate" /\ C5_Case(resp.data)) =>
        /\ resp.status \in {"ValidationError", "NotFound"}
        /\ (~C4_Case(resp.data) /\ ~AmountOutOfRange(resp.data))
               => resp.status = "NotFound"

C5_Witness ==
    /\ resp.op = "validate" /\ resp.status = "NotFound"
    /\ ListOf(resp.data.tags) = <<1, 3>>
    /\ ItemIds(ListOf(resp.data.ingredients)) = <<1, 2>>

C7_DeleteCascades ==
    [][resp'.op = "delete" =>
        LET r == resp'.recipe
        IN  /\ r \notin DOMAIN db'.Recipes
            /\ \A x \in BagToSet(db'.IngredientInRecipe) : x.recipe # r
            /\ \A l \in db'.Favorite \cup db'.Cart : l[2] # r
            /\ \A q \in DOMAIN db.Recipes \ {r} :
                   /\ q \in DOMAIN db'.Recipes
                   /\ db'.Recipes[q] = db.Recipes[q]
                   /\ RecipeRead(db', q) = RecipeRead(db, q)
            /\ {l \in db'.Favorite : l[2] # r} = {l \in db.Favorite : l[2] # r}
            /\ {l \in db'.Cart : l[2] # r} = {l \in db.Cart : l[2] # r}
            /\ db'.Ingredients = db.Ingredients
            /\ db'.Tags = db.Tags]_vars

C7_Witness ==
    /\ resp.op = "delete"
    /\ \E q \in DOMAIN db.Recipes :
           /\ q # resp.recipe
           /\ <<"u1", q>> \in db.Favorite
           /\ <<"u2", q>> \in db.Cart
           /\ BagCardinality(RecipeRead(db, q).ingredients) = 2

\* C9: the summary lists the first min(L, K) of the K recipes of the authors
\* the user follows, most recent first, and all K without a limit;
\* recipes_count is the number of the author's recipes whatever L is.
C9_SummaryLimit ==
    (resp.op = "summary" /\ (resp.recipes_limit = None \/ truthy(resp.recipes_limit))) =>
        LET followed == {r \in DOMAIN db.Recipes :
                            \E a \in Users : /\ <<resp.obj[1], a>> \in db.Subscribe
                                             /\ db.Recipes[r].author = a}
            K == Cardinality(followed)
            n == Len(resp.recipes)
        IN  /\ n = IF resp.recipes_limit = None THEN K
                   ELSE Min(int(resp.recipes_limit[1]), K)
            /\ Range(resp.recipes) \subseteq followed
            /\ \A j \in 1 .. n - 1 : resp.recipes[j] > resp.recipes[j + 1]
            /\ \A r \in followed \ Range(resp.recipes) :
                   \A j \in 1 .. n : r < resp.recipes[j]
            /\ resp.recipes_count =
                   Cardinality({r \in DOMAIN db.Recipes :
                                    db.Recipes[r].author = resp.obj[2]})

\* A follower of both authors asks for one recipe: the list holds the newest
\* recipe, which is the other author's, and the count is this author's.
C9_Witness ==
    /\ resp.op = "summary"
    /\ resp.obj = <<"u3", "u1">>
    /\ resp.recipes_limit = Some(<<1>>)
    /\ resp.recipes = <<2>>
    /\ resp.recipes_count = 1
    /\ db.Recipes[2].author = "u2"

\* C10: an Update step leaves the recipe's author as it was.
C10_UpdateKeepsAuthor ==
    [][(resp'.op = "update" /\ resp'.status = "ok") =>
        db'.Recipes[resp'.recipe].author = db.Recipes[resp'.recipe].author]_vars

\* C1: whatever the writers do, a recipe of the committed store, and so a
\* recipe a reader renders, never has tags without IngredientInRecipe rows or
\* rows without tags: its row, links and rows are there together.
C1_NoPartialRecipe ==
    /\ \A r \in DOMAIN db.Recipes :
           /\ tags_all(db, r) # {}
           /\ ingredientinrecipe_set(db, r) # EmptyBag
    /\ seen # None =>
           (seen[1].tags = {} <=> seen[1].ingredients = EmptyBag)

\* C2: a call that ended in ValidationError, NotFound or IntegrityError has
\* changed nothing in the committed store.
C2_FailureWritesNothing ==
    \A p \in Procs :
        (proc[p].pc = "idle" /\ proc[p].last \in Failures) => ~proc[p].wrote

\* A call has failed inside its transaction, another at validation.
C2_Witness ==
    \E p, o \in Procs :
        /\ proc[p].pc = "idle" /\ proc[p].last = "IntegrityError"
        /\ proc[o].pc = "idle" /\ proc[o].last = "ValidationError"
        /\ \E r \in DOMAIN db.Recipes :
               BagToSet(ingredientinrecipe_set(db, r)) = {IngredientInRecipe(r, 1, 2)}

\* C8: the committed store never holds two IngredientInRecipe rows of one
\* (ingredient, recipe) pair.
C8_UniquePair ==
    /\ \A x \in BagToSet(db.IngredientInRecipe) : db.IngredientInRecipe[x] = 1
    /\ \A x, y \in BagToSet(db.IngredientInRecipe) :
           (x.recipe = y.recipe /\ x.ingredient = y.ingredient)
               => x.amount = y.amount

\* An Update has re-supplied an ingredient the recipe had, with another amount.
C8_Witness ==
    /\ \E p \in Procs : proc[p].pc = "idle" /\ proc[p].last = "ok" /\ proc[p].wrote
    /\ \E r \in DOMAIN db.Recipes :
           BagToSet(ingredientinrecipe_set(db, r)) = {IngredientInRecipe(r, 1, 2)}

====
